---- MODULE Spec2Model ----
(***************************************************************************)
(* A model of show_samples.py: the script opens the sprite lookup file,    *)
(* parses it with json.load, prints up to ten sample entries for each of   *)
(* the four categories weapons, armor, food and resources, tallies the     *)
(* records per category and prints the tally sorted by category name.      *)
(*                                                                         *)
(* A Python dict is modelled as the sequence of its <<key, value>> items   *)
(* in insertion order (keys unique).  A JSON object value is a TLA+ record *)
(* holding the fields it has; a JSON value that is no object is the record *)
(* [scalar |-> TRUE].  Each statement of the script is one action; pc      *)
(* names the source line about to run.                                     *)
(***************************************************************************)
EXTENDS Integers, Sequences, FiniteSets, TLC

VARIABLES
    file,        \* the input file: whether it exists, and its content
    opens,       \* how many times open() has been called on the file
    f,           \* "unbound" | "open" | "closed": the file object of line 4
    data,        \* the value json.load returned (line 5)
    weapons,     \* the list of line 8
    armor,       \* the list of line 13
    food,        \* the list of line 18
    resources,   \* the list of line 23
    categories,  \* the dict of line 28
    summary,     \* the list sorted(categories.items()) of line 34
    idx,         \* position of the running for loop's iterator
    out,         \* the lines written to standard output so far
    err,         \* the uncaught exception, "none" while there is none
    status,      \* the exit status, -1 while the script is running
    pc           \* the source line about to run, or "exit"

vars == <<file, opens, f, data, weapons, armor, food, resources, categories,
          summary, idx, out, err, status, pc>>

----------------------------------------------------------------------------
(* Bounds of the model and constants of the script *)

\* the slice bound [:10] of lines 8, 13, 18, 23
limit == 10

\* records of a large catalog besides its run of equal-category records
MaxExtra == 2

\* key/value pairs of a small input file (keys may repeat in the file)
MaxSmall == 2

Min(a, b) == IF a <= b THEN a ELSE b

----------------------------------------------------------------------------
(* Strings: Python compares str values code point by code point *)

CodePoints ==
    [ weapons   |-> <<119, 101, 97, 112, 111, 110, 115>>,
      armor     |-> <<97, 114, 109, 111, 114>>,
      food      |-> <<102, 111, 111, 100>>,
      resources |-> <<114, 101, 115, 111, 117, 114, 99, 101, 115>>,
      resource  |-> <<114, 101, 115, 111, 117, 114, 99, 101>> ]

CategoryLabels == DOMAIN CodePoints

RECURSIVE LexLess(_, _)
LexLess(s, t) ==
    IF s = <<>> THEN t # <<>>
    ELSE IF t = <<>> THEN FALSE
    ELSE IF Head(s) # Head(t) THEN Head(s) < Head(t)
    ELSE LexLess(Tail(s), Tail(t))

StrLess(a, b) == LexLess(CodePoints[a], CodePoints[b])

\* (category, count) tuples compare first by category, then by count
TupleLess(a, b) == StrLess(a[1], b[1]) \/ (a[1] = b[1] /\ a[2] < b[2])

----------------------------------------------------------------------------
(* dict operations on the items-sequence representation *)

DictHas(d, k) == \E p \in 1..Len(d) : d[p][1] = k

DictPos(d, k) == CHOOSE p \in 1..Len(d) : d[p][1] = k

\* d.get(k, default)
DictGet(d, k, default) == IF DictHas(d, k) THEN d[DictPos(d, k)][2] ELSE default

\* d[k] = v : an existing key keeps its position, a new key goes last
DictSet(d, k, v) ==
    IF DictHas(d, k)
    THEN [d EXCEPT ![DictPos(d, k)] = <<k, v>>]
    ELSE Append(d, <<k, v>>)

----------------------------------------------------------------------------
(* The input file *)

Names == [ weapons |-> "Sword", armor |-> "Shield", food |-> "Bread",
           resources |-> "Ore", resource |-> "Log" ]

Rec(c) == [name |-> Names[c], category |-> c]

ValidRecords == { Rec(c) : c \in CategoryLabels }

Scalar == [scalar |-> TRUE]

\* values a key of the file's top-level object may carry
FileValues ==
    ValidRecords \cup
    { [name |-> "Mystery"],          \* an object without category
      [category |-> "weapons"],      \* objects without name
      [category |-> "resource"],
      Scalar }                       \* a string, number, array or null

RECURSIVE Repeat(_, _)
Repeat(x, n) == IF n = 0 THEN <<>> ELSE <<x>> \o Repeat(x, n - 1)

\* number the values of a sequence: the file's keys in serialization order
Keyed(vs) == [p \in 1..Len(vs) |-> <<p, vs[p]>>]

SeqsUpTo(S, n) == UNION { [1..m -> S] : m \in 0..n }

\* large catalogs: a run of records of one category, as long as the slice
\* bound or one longer, with a few other records before, after or around it
BulkSizes == { limit, limit + 1 }

LargeValues == ValidRecords \cup { [category |-> "weapons"] }

LargePairs ==
    { Keyed(SubSeq(ex, 1, j) \o Repeat(Rec(c), k) \o SubSeq(ex, j + 1, Len(ex))) :
        <<ex, j, c, k>> \in
            { t \in SeqsUpTo(LargeValues, MaxExtra) \X (0..MaxExtra)
                     \X CategoryLabels \X BulkSizes : t[2] <= Len(t[1]) } }

\* short files, whose text may name a key more than once
SmallPairs == SeqsUpTo((1..MaxSmall) \X FileValues, MaxSmall)

FileContents ==
    { [json |-> "invalid", pairs |-> <<>>],     \* not a JSON document
      [json |-> "other", pairs |-> <<>>] }      \* a JSON value that is no object
    \cup { [json |-> "object", pairs |-> ps] : ps \in LargePairs \cup SmallPairs }

Files ==
    { [exists |-> FALSE, content |-> [json |-> "invalid", pairs |-> <<>>]] }
    \cup { [exists |-> TRUE, content |-> c] : c \in FileContents }

----------------------------------------------------------------------------
(* json.load *)

\* the dict json builds from an object's pairs: a repeated key keeps the
\* position of its first occurrence and the value of its last
RECURSIVE ObjectPairs(_, _)
ObjectPairs(d, ps) ==
    IF ps = <<>> THEN d
    ELSE ObjectPairs(DictSet(d, Head(ps)[1], Head(ps)[2]), Tail(ps))

Unbound == [type |-> "unbound", items |-> <<>>]

JsonLoad(content) ==
    IF content.json = "object"
    THEN [type |-> "dict", items |-> ObjectPairs(<<>>, content.pairs)]
    ELSE [type |-> "other", items |-> <<>>]

----------------------------------------------------------------------------
(* Expressions of the script *)

\* v['category'] and v['name'] evaluate without raising
HasKey(v, key) == key \in DOMAIN v

\* the exception v[key] raises when it raises
SubscriptError(v) == IF "scalar" \in DOMAIN v THEN "TypeError" ELSE "KeyError"

\* mutant: the comprehension reads v['name'] as well as v['category']
BadPositionsBothFields(items) ==
    { p \in 1..Len(items) :
        ~HasKey(items[p][2], "category") \/ ~HasKey(items[p][2], "name") }

\* positions of the items whose v['category'] raises
BadPositions(items) == { p \in 1..Len(items) : ~HasKey(items[p][2], "category") }

FirstBad(items) == CHOOSE p \in BadPositions(items) : \A q \in BadPositions(items) : p <= q

\* x occurs in y as a run of consecutive elements
IsInfix(x, y) == \E i \in 0..(Len(y) - Len(x)) : SubSeq(y, i + 1, i + Len(x)) = x

\* mutant: v['category'] in category, the substring test, for ==
MatchesSubstring(item, category) ==
    IsInfix(CodePoints[item[2].category], CodePoints[category])

Matches(item, category) == item[2].category = category

\* mutant: the slice taken of data.items() before the filter
SampleSliceFirst(items, category) ==
    SelectSeq(SubSeq(items, 1, Min(limit, Len(items))), LAMBDA it : Matches(it, category))

\* mutant: the slice forgotten
SampleNoSlice(items, category) == SelectSeq(items, LAMBDA it : Matches(it, category))

\* [(k, v) for k, v in data.items() if v['category'] == category][:10]
SampleByCategory(items, category) ==
    LET matching == SelectSeq(items, LAMBDA it : Matches(it, category))
    IN  SubSeq(matching, 1, Min(limit, Len(matching)))

\* list.insert at the place sorted() gives x among the sorted s
RECURSIVE Insert(_, _)
Insert(x, s) ==
    IF s = <<>> THEN <<x>>
    ELSE IF TupleLess(x, Head(s)) THEN <<x>> \o s
    ELSE <<Head(s)>> \o Insert(x, Tail(s))

\* mutant: categories.items() iterated as it is, without sorted()
Unsorted(s) == s

\* sorted(categories.items())
RECURSIVE Sorted(_)
Sorted(s) == IF s = <<>> THEN <<>> ELSE Insert(Head(s), Sorted(Tail(s)))

\* lines of standard output
HeaderLine(section) == [kind |-> "header", section |-> section]
ItemLine(k, v) == [kind |-> "item", id |-> k, name |-> v.name]
SummaryHeaderLine == [kind |-> "summary"]
CountLine(category, count) == [kind |-> "count", category |-> category, count |-> count]

----------------------------------------------------------------------------
(* Statements of the script *)

Init ==
    /\ file \in Files
    /\ opens = 0
    /\ f = "unbound"
    /\ data = Unbound
    /\ weapons = <<>>
    /\ armor = <<>>
    /\ food = <<>>
    /\ resources = <<>>
    /\ categories = <<>>
    /\ summary = <<>>
    /\ idx = 0
    /\ out = <<>>
    /\ err = "none"
    /\ status = -1
    /\ pc = "L4"

\* an uncaught exception ends the script with status 1
Raise(e) ==
    /\ err' = e
    /\ status' = 1
    /\ pc' = "exit"

\* mutant: a missing file taken for an empty catalog instead of raising
OpenOrEmpty ==
    /\ pc = "L4"
    /\ IF file.exists
       THEN /\ opens' = opens + 1
            /\ f' = "open"
            /\ pc' = "L5"
            /\ UNCHANGED data
       ELSE /\ data' = [type |-> "dict", items |-> <<>>]
            /\ pc' = "L7"
            /\ UNCHANGED <<opens, f>>
    /\ UNCHANGED <<file, weapons, armor, food, resources, categories,
                   summary, idx, out, err, status>>

\* line 4: open(path, 'r')
Open ==
    /\ pc = "L4"
    /\ IF file.exists
       THEN /\ opens' = opens + 1
            /\ f' = "open"
            /\ pc' = "L5"
            /\ UNCHANGED <<err, status>>
       ELSE /\ Raise("FileNotFoundError")
            /\ UNCHANGED <<opens, f>>
    /\ UNCHANGED <<file, data, weapons, armor, food, resources, categories,
                   summary, idx, out>>

\* line 5: data = json.load(f), and the with block closing f either way
Load ==
    /\ pc = "L5"
    /\ f' = "closed"
    /\ IF file.content.json = "invalid"
       THEN /\ Raise("JSONDecodeError")
            /\ UNCHANGED data
       ELSE /\ data' = JsonLoad(file.content)
            /\ pc' = "L7"
            /\ UNCHANGED <<err, status>>
    /\ UNCHANGED <<file, opens, weapons, armor, food, resources, categories,
                   summary, idx, out>>

\* lines 7, 12, 17, 22: print the section's header
PrintHeader(here, next, section) ==
    /\ pc = here
    /\ out' = Append(out, HeaderLine(section))
    /\ pc' = next
    /\ UNCHANGED <<file, opens, f, data, weapons, armor, food, resources,
                   categories, summary, idx, err, status>>

\* lines 8, 13, 18, 23: the comprehension and its slice; sampleNext is the
\* assigned list's value after the statement
Sample(here, next, category, sample, sampleNext) ==
    /\ pc = here
    /\ IF data.type # "dict"
       THEN /\ Raise("AttributeError")
            /\ sampleNext = sample
            /\ UNCHANGED idx
       ELSE IF BadPositions(data.items) # {}
       THEN /\ Raise(SubscriptError(data.items[FirstBad(data.items)][2]))
            /\ sampleNext = sample
            /\ UNCHANGED idx
       ELSE /\ sampleNext = SampleByCategory(data.items, category)
            /\ idx' = 1
            /\ pc' = next
            /\ UNCHANGED <<err, status>>
    /\ UNCHANGED <<file, opens, f, data, categories, summary, out>>

\* lines 9-10, 14-15, 19-20, 24-25: one turn of the for loop over the sample
PrintSample(here, next, sample) ==
    /\ pc = here
    /\ IF idx > Len(sample)
       THEN /\ pc' = next
            /\ UNCHANGED <<idx, out, err, status>>
       ELSE IF ~HasKey(sample[idx][2], "name")
       THEN /\ Raise("KeyError")
            /\ UNCHANGED <<idx, out>>
       ELSE /\ out' = Append(out, ItemLine(sample[idx][1], sample[idx][2]))
            /\ idx' = idx + 1
            /\ UNCHANGED <<pc, err, status>>
    /\ UNCHANGED <<file, opens, f, data, weapons, armor, food, resources,
                   categories, summary>>

PrintWeaponsHeader == PrintHeader("L7", "L8", "weapons")
SampleWeapons ==
    /\ Sample("L8", "L9", "weapons", weapons, weapons')
    /\ UNCHANGED <<armor, food, resources>>
PrintWeapons == PrintSample("L9", "L12", weapons)

\* mutant: the armor loop left iterating the weapons list it was copied from
PrintArmorOverWeapons == PrintSample("L14", "L17", weapons)

PrintArmorHeader == PrintHeader("L12", "L13", "armor")
SampleArmor ==
    /\ Sample("L13", "L14", "armor", armor, armor')
    /\ UNCHANGED <<weapons, food, resources>>
PrintArmor == PrintSample("L14", "L17", armor)

PrintFoodHeader == PrintHeader("L17", "L18", "food")
SampleFood ==
    /\ Sample("L18", "L19", "food", food, food')
    /\ UNCHANGED <<weapons, armor, resources>>
PrintFood == PrintSample("L19", "L22", food)

PrintResourcesHeader == PrintHeader("L22", "L23", "resources")
SampleResources ==
    /\ Sample("L23", "L24", "resources", resources, resources')
    /\ UNCHANGED <<weapons, armor, food>>
PrintResources == PrintSample("L24", "L28", resources)

\* line 28: categories = {}
NewCategories ==
    /\ pc = "L28"
    /\ categories' = <<>>
    /\ idx' = 1
    /\ pc' = "L29"
    /\ UNCHANGED <<file, opens, f, data, weapons, armor, food, resources,
                   summary, out, err, status>>

\* mutant: categories[cat] = 1
TallyOverwrite(cats, cat) == DictSet(cats, cat, 1)

\* mutant: categories.get(cat, 1) + 1
TallyFromOne(cats, cat) == DictSet(cats, cat, DictGet(cats, cat, 1) + 1)

\* the dict after categories[cat] = categories.get(cat, 0) + 1
Tally(cats, cat) == DictSet(cats, cat, DictGet(cats, cat, 0) + 1)

\* mutant: cat = v.pop('category'), which takes the field out of the record
CountPopping ==
    /\ pc = "L29"
    /\ IF idx > Len(data.items)
       THEN /\ pc' = "L33"
            /\ UNCHANGED <<data, categories, idx>>
       ELSE /\ categories' = Tally(categories, data.items[idx][2].category)
            /\ data' = [data EXCEPT !.items[idx][2] =
                            [k \in DOMAIN @ \ {"category"} |-> @[k]]]
            /\ idx' = idx + 1
            /\ UNCHANGED pc
    /\ UNCHANGED <<file, opens, f, weapons, armor, food, resources,
                   summary, out, err, status>>

\* lines 29-31: one turn of the for loop over data.values()
Count ==
    /\ pc = "L29"
    /\ IF idx > Len(data.items)
       THEN /\ pc' = "L33"
            /\ UNCHANGED <<categories, idx, err, status>>
       ELSE IF ~HasKey(data.items[idx][2], "category")
       THEN /\ Raise(SubscriptError(data.items[idx][2]))
            /\ UNCHANGED <<categories, idx>>
       ELSE /\ categories' = Tally(categories, data.items[idx][2].category)
            /\ idx' = idx + 1
            /\ UNCHANGED <<pc, err, status>>
    /\ UNCHANGED <<file, opens, f, data, weapons, armor, food, resources,
                   summary, out>>

\* line 33: print the summary's header
PrintSummaryHeader ==
    /\ pc = "L33"
    /\ out' = Append(out, SummaryHeaderLine)
    /\ pc' = "L34"
    /\ UNCHANGED <<file, opens, f, data, weapons, armor, food, resources,
                   categories, summary, idx, err, status>>

\* line 34: sorted(categories.items()), evaluated once before the loop
SortCategories ==
    /\ pc = "L34"
    /\ summary' = Sorted(categories)
    /\ idx' = 1
    /\ pc' = "L35"
    /\ UNCHANGED <<file, opens, f, data, weapons, armor, food, resources,
                   categories, out, err, status>>

\* lines 34-35: one turn of the for loop over the sorted items; the script
\* ends with status 0 when the loop is exhausted
PrintCount ==
    /\ pc = "L35"
    /\ IF idx > Len(summary)
       THEN /\ pc' = "exit"
            /\ status' = 0
            /\ UNCHANGED <<idx, out>>
       ELSE /\ out' = Append(out, CountLine(summary[idx][1], summary[idx][2]))
            /\ idx' = idx + 1
            /\ UNCHANGED <<pc, status>>
    /\ UNCHANGED <<file, opens, f, data, weapons, armor, food, resources,
                   categories, summary, err>>

Next ==
    \/ Open
    \/ Load
    \/ PrintWeaponsHeader
    \/ SampleWeapons
    \/ PrintWeapons
    \/ PrintArmorHeader
    \/ SampleArmor
    \/ PrintArmor
    \/ PrintFoodHeader
    \/ SampleFood
    \/ PrintFood
    \/ PrintResourcesHeader
    \/ SampleResources
    \/ PrintResources
    \/ NewCategories
    \/ Count
    \/ PrintSummaryHeader
    \/ SortCategories
    \/ PrintCount

Spec == Init /\ [][Next]_vars

----------------------------------------------------------------------------
(* Properties *)

\* the statements in program order
PcOrder == <<"L4", "L5", "L7", "L8", "L9", "L12", "L13", "L14", "L17", "L18",
             "L19", "L22", "L23", "L24", "L28", "L29", "L33", "L34", "L35">>

PcIndex(l) == CHOOSE p \in 1..Len(PcOrder) : PcOrder[p] = l

Succeeded == pc = "exit" /\ status = 0

\* the statement at label l has completed without raising
Past(l) == Succeeded \/ (pc # "exit" /\ PcIndex(pc) > PcIndex(l))

Catalog == data.items

CategoryAt(p) == Catalog[p][2].category

MatchPositions(c) == { p \in 1..Len(Catalog) : CategoryAt(p) = c }

\* s holds the first ten (or all, when fewer) catalog entries of category c,
\* in catalog order: s[j] is the entry at the j-th matching position
IsFirstMatches(s, c) ==
    LET M == MatchPositions(c)
        n == IF Cardinality(M) < 10 THEN Cardinality(M) ELSE 10
    IN  /\ Len(s) = n
        /\ \A j \in 1..n :
              \E p \in M : /\ Cardinality({ q \in M : q <= p }) = j
                           /\ s[j] = Catalog[p]

\* C1: each of the four samples is exactly the first min(10, m) catalog
\* entries, in catalog order, whose category equals the section's label
\* (all m of them when m < 10), and an empty sample raises nothing: the
\* script goes on to the section's print loop.
C1_SampleIsFirstMatches ==
    /\ Past("L8") => IsFirstMatches(weapons, "weapons")
    /\ Past("L13") => IsFirstMatches(armor, "armor")
    /\ Past("L18") => IsFirstMatches(food, "food")
    /\ Past("L23") => IsFirstMatches(resources, "resources")
    /\ (pc = "L9" /\ MatchPositions("weapons") = {}) =>
            (weapons = <<>> /\ err = "none" /\ status = -1)
    /\ (pc = "L14" /\ MatchPositions("armor") = {}) =>
            (armor = <<>> /\ err = "none" /\ status = -1)
    /\ (pc = "L19" /\ MatchPositions("food") = {}) =>
            (food = <<>> /\ err = "none" /\ status = -1)
    /\ (pc = "L24" /\ MatchPositions("resources") = {}) =>
            (resources = <<>> /\ err = "none" /\ status = -1)

\* all four samples taken: one of more than ten matches between other
\* records, one of fewer than ten, one of none
C1_Witness ==
    /\ pc = "L28"
    /\ Cardinality(MatchPositions("weapons")) > 10
    /\ CategoryAt(1) # "weapons"
    /\ CategoryAt(Len(Catalog)) = "armor"
    /\ MatchPositions("food") = {}
    /\ Len(weapons) = 10
    /\ Len(armor) = 1

\* C2: each of the four sample lists holds at most ten entries, however many
\* catalog records carry its category.
C2_SampleAtMostLimit ==
    /\ Len(weapons) <= 10
    /\ Len(armor) <= 10
    /\ Len(food) <= 10
    /\ Len(resources) <= 10

\* the resources sample taken from a catalog with eleven resources records
C2_Witness ==
    /\ Past("L23")
    /\ Cardinality(MatchPositions("resources")) = 11
    /\ Len(resources) = 10

CountKeys == { categories[p][1] : p \in 1..Len(categories) }

\* C3: when the tally loop has finished, the keys of categories are exactly
\* the category values occurring in the catalog, each once, and each count is
\* the number of catalog records of that category.
C3_TallyExact ==
    Past("L29") =>
        /\ CountKeys = { CategoryAt(p) : p \in 1..Len(Catalog) }
        /\ Cardinality(CountKeys) = Len(categories)
        /\ \A p \in 1..Len(categories) :
              categories[p][2] = Cardinality(MatchPositions(categories[p][1]))

\* the tally finished over a catalog with a sampled category and a repeated
\* category outside the four sampled labels
C3_Witness ==
    /\ pc = "L33"
    /\ Cardinality(MatchPositions("resource")) >= 2
    /\ MatchPositions("weapons") # {}
    /\ MatchPositions("armor") = {}

RECURSIVE SumCounts(_)
SumCounts(d) == IF d = <<>> THEN 0 ELSE Head(d)[2] + SumCounts(Tail(d))

\* C4: the counts sum to the number of records processed: to idx - 1 while
\* the tally loop runs, and to the size of the catalog once it has finished.
C4_CountsSumToRecords ==
    /\ pc = "L29" => SumCounts(categories) = idx - 1
    /\ Past("L29") => SumCounts(categories) = Len(Catalog)

\* the loop halfway through a catalog, one category already counted twice
C4_Witness ==
    /\ pc = "L29"
    /\ idx = 6
    /\ Len(Catalog) = 12
    /\ Len(categories) = 2
    /\ SumCounts(categories) = 5

\* a comes before b in the dictionary: the two agree up to a position where
\* a ends and b goes on, or where a's letter is the earlier one
AlphaBefore(a, b) ==
    LET x == CodePoints[a]
        y == CodePoints[b]
    IN  \E i \in 1..Len(y) :
            /\ \A k \in 1..(i - 1) : k <= Len(x) /\ x[k] = y[k]
            /\ \/ i = Len(x) + 1
               \/ i <= Len(x) /\ x[i] < y[i]

IsCountLine(line) == line.kind = "count"

PrintedCounts == SelectSeq(out, IsCountLine)

LacksCategory == \E p \in 1..Len(data.items) : ~HasKey(data.items[p][2], "category")

LacksName == \E p \in 1..Len(data.items) : ~HasKey(data.items[p][2], "name")

\* the content is not a JSON object all of whose values are objects with
\* both a name and a category (the values being those json.load keeps)
BadShape ==
    \/ file.content.json # "object"
    \/ data.type = "dict" /\ (LacksCategory \/ LacksName)

\* C6 as stated: on a file of bad shape nothing is ever written to standard
\* output and the script ends with a parse error and a non-zero status.
C6_Original ==
    (file.exists /\ BadShape) =>
        /\ out = <<>>
        /\ pc = "exit" => (err = "JSONDecodeError" /\ status # 0)

NamelessSampled ==
    \E s \in {weapons, armor, food, resources} :
        \E j \in 1..Len(s) : ~HasKey(s[j][2], "name")

\* C6 as the script behaves: text that is no JSON fails in json.load with
\* nothing written; a JSON value that is no object, or a loaded value without
\* category, fails in the first comprehension (line 8) with the weapons header
\* as the only output; a record without name fails only when a print loop
\* reaches it in a sample, and otherwise the run succeeds.
C6_BadShapeFailure ==
    (file.exists /\ BadShape) =>
        IF file.content.json = "invalid"
        THEN /\ out = <<>>
             /\ pc \in {"L4", "L5", "exit"}
             /\ pc = "exit" => (err = "JSONDecodeError" /\ status = 1)
        ELSE IF file.content.json = "other" \/ LacksCategory
        THEN /\ pc \in {"L4", "L5", "L7", "L8", "exit"}
             /\ pc \in {"L4", "L5", "L7"} => out = <<>>
             /\ pc = "L8" => out = <<HeaderLine("weapons")>>
             /\ pc = "exit" =>
                   /\ out = <<HeaderLine("weapons")>>
                   /\ status = 1
                   /\ err = IF file.content.json = "other" THEN "AttributeError"
                            ELSE SubscriptError(data.items[FirstBad(data.items)][2])
        ELSE pc = "exit" =>
                \/ status = 0 /\ err = "none" /\ ~NamelessSampled
                \/ /\ status = 1
                   /\ err = "KeyError"
                   /\ NamelessSampled
                   /\ out # <<>>
                   /\ out[1] = HeaderLine("weapons")

\* the script has ended on a record without category, the header written
C6_Witness ==
    /\ file.exists
    /\ file.content.json = "object"
    /\ LacksCategory
    /\ pc = "exit"
    /\ err = "KeyError"
    /\ out = <<HeaderLine("weapons")>>

\* C7: with the input path missing, open raises before anything else runs:
\* nothing is written, no sample or tally is made, and the script ends with
\* FileNotFoundError and a non-zero status.
C7_MissingFileNoOutput ==
    ~file.exists =>
        /\ out = <<>>
        /\ pc \in {"L4", "exit"}
        /\ opens = 0
        /\ f = "unbound"
        /\ data = Unbound
        /\ weapons = <<>> /\ armor = <<>> /\ food = <<>> /\ resources = <<>>
        /\ categories = <<>> /\ summary = <<>>
        /\ pc = "exit" => (err = "FileNotFoundError" /\ status = 1)

\* the script has ended on the missing file
C7_Witness == ~file.exists /\ pc = "exit" /\ status = 1

\* the id and name lines of a sample, in sample order
SectionLines(s) == [j \in 1..Len(s) |-> [kind |-> "item", id |-> s[j][1], name |-> s[j][2].name]]

SampleSections ==
    <<[kind |-> "header", section |-> "weapons"]>> \o SectionLines(weapons)
    \o <<[kind |-> "header", section |-> "armor"]>> \o SectionLines(armor)
    \o <<[kind |-> "header", section |-> "food"]>> \o SectionLines(food)
    \o <<[kind |-> "header", section |-> "resources"]>> \o SectionLines(resources)

\* C8: a successful run's output is the four sample sections in the order
\* weapons, armor, food, resources, each its header and the id and name of the
\* sample's records in sample order, then one summary header, then count
\* lines only; and at no moment does a header or sample line follow the
\* summary header.
C8_OutputOrder ==
    /\ Succeeded =>
          /\ Len(out) = Len(SampleSections) + 1 + Len(categories)
          /\ SubSeq(out, 1, Len(SampleSections)) = SampleSections
          /\ out[Len(SampleSections) + 1].kind = "summary"
          /\ \A p \in (Len(SampleSections) + 2)..Len(out) : out[p].kind = "count"
    /\ \A p \in 1..Len(out) : \A q \in (p + 1)..Len(out) :
          out[p].kind \in {"summary", "count"} => out[q].kind = "count"

\* a finished run in which the armor sample differs from the weapons sample
C8_Witness ==
    /\ Succeeded
    /\ Len(weapons) = 10
    /\ Len(armor) = 2
    /\ Len(resources) = 0
    /\ Len(categories) = 2

\* C9: the file is opened at most once, and once json.load has returned no
\* statement changes the catalog, reopens the file or touches the file.
C9_CatalogImmutable ==
    /\ [](opens <= 1)
    /\ [][pc \notin {"L4", "L5"} =>
            (data' = data /\ opens' = opens /\ f' = f /\ file' = file)]_vars

\* a finished run over a catalog of more than ten records, file closed
C9_Witness ==
    /\ Succeeded
    /\ data.type = "dict"
    /\ Len(Catalog) > 10
    /\ opens = 1
    /\ f = "closed"

\* the number of sample lines printed right after the header of section c
SectionLength(c) ==
    LET h == CHOOSE p \in 1..Len(out) : out[p] = [kind |-> "header", section |-> c]
        stop == CHOOSE q \in (h + 1)..Len(out) :
                    /\ out[q].kind # "item"
                    /\ \A r \in (h + 1)..(q - 1) : out[r].kind = "item"
    IN  stop - h - 1

\* counts[c], taken as 0 when c is no key of the mapping
CountOf(c) ==
    IF c \in CountKeys
    THEN (CHOOSE kv \in { categories[p] : p \in 1..Len(categories) } : kv[1] = c)[2]
    ELSE 0

CountPrinted(c) == \E p \in 1..Len(out) : out[p].kind = "count" /\ out[p].category = c

\* C10: on a successful run the number of entries printed in each of the
\* four sample sections is min(10, counts[c]), counts[c] being 0 for an absent
\* category; a sampled category has a count line exactly when its section is
\* not empty.
C10_SampleMatchesTally ==
    Succeeded =>
        \A c \in {"weapons", "armor", "food", "resources"} :
            /\ SectionLength(c) = (IF CountOf(c) < 10 THEN CountOf(c) ELSE 10)
            /\ CountPrinted(c) <=> SectionLength(c) > 0

\* a finished run with an empty sampled section, a full one, and a record of
\* a category whose name begins a sampled label
C10_Witness ==
    /\ Succeeded
    /\ SectionLength("resources") = 10
    /\ CountOf("resources") = 11
    /\ CountOf("resource") = 1
    /\ SectionLength("armor") = 0
    /\ ~CountPrinted("armor")

====
